---- MODULE Spec2Model ----
(***************************************************************************)
(* Book catalogue: the React component App (its state, its three request   *)
(* handlers and their continuations after the awaited HTTP call), the      *)
(* books routes of the API server over the document store, and the HTTP    *)
(* requests in flight between them.                                        *)
(*                                                                         *)
(* Text is a sequence of one-character strings, so that trim() is          *)
(* computed and not assumed.  A handler captures the books and newBook of  *)
(* the render it was invoked in; the captured values travel with the       *)
(* request it awaits.                                                      *)
(***************************************************************************)
EXTENDS Integers, Sequences, FiniteSets, TLC

\* Bounds of the model.
MaxInflight == 2    \* HTTP requests in flight at once
MaxId == 2          \* identifiers the store hands out

VARIABLES books, newBook, loading, error, mounted, inflight, store, nextId

vars == <<books, newBook, loading, error, mounted, inflight, store, nextId>>

----------------------------------------------------------------------------
\* Text and the values typed into the form: whitespace only, or a word.  The
\* empty text is that of the initial and of the reset draft.

Texts == {<<" ">>, <<"D">>}

FieldNames == {"title", "author", "description"}

\* The values typed into the field of that name.
Typed(name) == IF name = "description" THEN {<<"D">>} ELSE Texts

IsSpace(ch) == ch = " "

RECURSIVE TrimStart(_)
TrimStart(s) == IF s # <<>> /\ IsSpace(Head(s)) THEN TrimStart(Tail(s)) ELSE s

RECURSIVE TrimEnd(_)
TrimEnd(s) ==
  IF s # <<>> /\ IsSpace(s[Len(s)]) THEN TrimEnd(SubSeq(s, 1, Len(s) - 1)) ELSE s

Trim(s) == TrimEnd(TrimStart(s))

EmptyDraft == [title |-> <<>>, author |-> <<>>, description |-> <<>>]

\* The mutant of DraftRejected: the author is not looked at.
DraftRejectedTitleOnly(draft) == Trim(draft.title) = <<>>

\* newBook.title.trim() === '' || newBook.author.trim() === ''
DraftRejected(draft) == Trim(draft.title) = <<>> \/ Trim(draft.author) = <<>>

----------------------------------------------------------------------------
\* Messages.

RequiredMessage == "Title and Author are required fields"
LoadFallback == "Failed to load books"
AddFallback == "Failed to add book"
DeleteFallback == "Failed to delete book"

\* The mutant of ErrorText: the response's message is shown even when empty.
ErrorTextNoFallback(message, fallback) == message

\* err.response?.data?.message || fallback ("" stands for an absent or
\* empty message: both are falsy)
ErrorText(message, fallback) == IF message = "" THEN fallback ELSE message

----------------------------------------------------------------------------
\* Sequences of books.

Ids(bs) == {bs[i]._id : i \in 1..Len(bs)}

\* The mutant of AppendBook: the returned record is put first.
PrependBook(bs, book) == <<book>> \o bs

\* [...books, response.data]
AppendBook(bs, book) == Append(bs, book)

\* The mutant of RemoveBook: the first record is dropped, whatever its id.
RemoveFirstBook(bs, id) == IF bs = <<>> THEN bs ELSE Tail(bs)

\* books.filter(book => book._id !== id)
RemoveBook(bs, id) ==
  LET Keep(b) == b._id # id IN SelectSeq(bs, Keep)

RemoveAt(s, i) == SubSeq(s, 1, i - 1) \o SubSeq(s, i + 1, Len(s))

----------------------------------------------------------------------------
\* HTTP requests in flight.

NoBody == [f \in {} |-> <<>>]

Request(origin, method, captured, body, id) ==
  [origin |-> origin, method |-> method, books |-> captured, body |-> body,
   id |-> id, phase |-> "sent", status |-> 0, data |-> <<>>, message |-> ""]

\* What the awaited axios call can give the handler: a network error (no
\* response: err.response is undefined) at any time, or the server's
\* response once it has replied; axios resolves on 2xx and rejects otherwise.
Awaited(c) ==
  {[ok |-> FALSE, data |-> <<>>, message |-> ""]}
    \cup (IF c.phase = "replied"
            THEN {[ok |-> c.status \in 200..299, data |-> c.data,
                   message |-> c.message]}
            ELSE {})

\* The outcomes the request at position i can be settled with.
Outcomes(i) == IF i \in 1..Len(inflight) THEN Awaited(inflight[i]) ELSE {}

----------------------------------------------------------------------------
\* The records the store holds when the page is opened.
InitialStore ==
  <<[_id |-> 1, title |-> <<"D">>, author |-> <<"D">>, description |-> <<>>]>>

Init ==
  /\ books = <<>>
  /\ newBook = EmptyDraft
  /\ loading = FALSE
  /\ error = ""
  /\ mounted = FALSE
  /\ inflight = <<>>
  /\ store = InitialStore
  /\ nextId = Len(InitialStore) + 1

----------------------------------------------------------------------------
\* The component App.

\* useEffect(() => { fetchBooks() }, []): runs once after the first render;
\* fetchBooks runs up to its await.
Mount ==
  /\ ~mounted
  /\ Len(inflight) < MaxInflight
  /\ mounted' = TRUE
  /\ loading' = TRUE
  /\ inflight' = Append(inflight, Request("App", "GET", books, NoBody, 0))
  /\ UNCHANGED <<books, newBook, error, store, nextId>>

\* fetchBooks after its await: try / catch / finally.
fetchBooksSettled(i, r) ==
  /\ i \in 1..Len(inflight)
  /\ inflight[i].origin = "App"
  /\ inflight[i].method = "GET"
  /\ r \in Awaited(inflight[i])
  /\ books' = IF r.ok THEN r.data ELSE books
  /\ error' = IF r.ok THEN "" ELSE ErrorText(r.message, LoadFallback)
  /\ loading' = FALSE
  /\ inflight' = RemoveAt(inflight, i)
  /\ UNCHANGED <<newBook, mounted, store, nextId>>

handleInputChange(name, value) ==
  /\ newBook' = [newBook EXCEPT ![name] = value]
  /\ UNCHANGED <<books, loading, error, mounted, inflight, store, nextId>>

\* handleAddBook up to its return or its await.
handleAddBook ==
  IF DraftRejected(newBook)
    THEN /\ error' = RequiredMessage
         /\ UNCHANGED <<books, newBook, loading, mounted, inflight, store, nextId>>
    ELSE /\ Len(inflight) < MaxInflight
         /\ loading' = TRUE
         /\ inflight' = Append(inflight, Request("App", "POST", books, newBook, 0))
         /\ UNCHANGED <<books, newBook, error, mounted, store, nextId>>

\* The mutant of handleAddBookSettled: the draft is not reset.
handleAddBookSettledKeepsDraft(i, r) ==
  /\ i \in 1..Len(inflight)
  /\ inflight[i].origin = "App"
  /\ inflight[i].method = "POST"
  /\ r \in Awaited(inflight[i])
  /\ books' = IF r.ok THEN AppendBook(inflight[i].books, r.data[1]) ELSE books
  /\ error' = IF r.ok THEN "" ELSE ErrorText(r.message, AddFallback)
  /\ loading' = FALSE
  /\ inflight' = RemoveAt(inflight, i)
  /\ UNCHANGED <<newBook, mounted, store, nextId>>

\* handleAddBook after its await: try / catch / finally.
handleAddBookSettled(i, r) ==
  /\ i \in 1..Len(inflight)
  /\ inflight[i].origin = "App"
  /\ inflight[i].method = "POST"
  /\ r \in Awaited(inflight[i])
  /\ books' = IF r.ok THEN AppendBook(inflight[i].books, r.data[1]) ELSE books
  /\ newBook' = IF r.ok THEN EmptyDraft ELSE newBook
  /\ error' = IF r.ok THEN "" ELSE ErrorText(r.message, AddFallback)
  /\ loading' = FALSE
  /\ inflight' = RemoveAt(inflight, i)
  /\ UNCHANGED <<mounted, store, nextId>>

\* The mutant of handleDeleteBook: the record is removed before the server
\* has answered.
handleDeleteBookOptimistic(id) ==
  /\ id \in Ids(books)
  /\ Len(inflight) < MaxInflight
  /\ loading' = TRUE
  /\ books' = RemoveBook(books, id)
  /\ inflight' = Append(inflight, Request("App", "DELETE", books, NoBody, id))
  /\ UNCHANGED <<newBook, error, mounted, store, nextId>>

\* handleDeleteBook(id) up to its await; id is the _id of a rendered card.
handleDeleteBook(id) ==
  /\ id \in Ids(books)
  /\ Len(inflight) < MaxInflight
  /\ loading' = TRUE
  /\ inflight' = Append(inflight, Request("App", "DELETE", books, NoBody, id))
  /\ UNCHANGED <<books, newBook, error, mounted, store, nextId>>

\* The mutant of handleDeleteBookSettled: a success leaves the error text.
handleDeleteBookSettledKeepsError(i, r) ==
  /\ i \in 1..Len(inflight)
  /\ inflight[i].origin = "App"
  /\ inflight[i].method = "DELETE"
  /\ r \in Awaited(inflight[i])
  /\ books' = IF r.ok THEN RemoveBook(inflight[i].books, inflight[i].id)
                      ELSE books
  /\ error' = IF r.ok THEN error ELSE ErrorText(r.message, DeleteFallback)
  /\ loading' = FALSE
  /\ inflight' = RemoveAt(inflight, i)
  /\ UNCHANGED <<newBook, mounted, store, nextId>>

\* handleDeleteBook after its await: try / catch / finally.
handleDeleteBookSettled(i, r) ==
  /\ i \in 1..Len(inflight)
  /\ inflight[i].origin = "App"
  /\ inflight[i].method = "DELETE"
  /\ r \in Awaited(inflight[i])
  /\ books' = IF r.ok THEN RemoveBook(inflight[i].books, inflight[i].id)
                      ELSE books
  /\ error' = IF r.ok THEN "" ELSE ErrorText(r.message, DeleteFallback)
  /\ loading' = FALSE
  /\ inflight' = RemoveAt(inflight, i)
  /\ UNCHANGED <<newBook, mounted, store, nextId>>

\* The form's inputs, its submit button and the cards' delete buttons are
\* rendered with disabled={loading}.
TypeInput(name, value) == ~loading /\ handleInputChange(name, value)

SubmitForm == ~loading /\ handleAddBook

ClickDelete(id) == ~loading /\ handleDeleteBook(id)

----------------------------------------------------------------------------
\* The books routes of the API server, over the store.

\* The mutant of Missing: an all-whitespace field counts as present.
MissingUntrimmed(body, f) == f \notin DOMAIN body \/ body[f] = <<>>

Missing(body, f) == f \notin DOMAIN body \/ Trim(body[f]) = <<>>

NewBook(body, id) ==
  [_id |-> id, title |-> body.title, author |-> body.author,
   description |-> IF "description" \in DOMAIN body THEN body.description
                                                   ELSE <<>>]

Reply(status, data, message, st, nid) ==
  [status |-> status, data |-> data, message |-> message, store |-> st,
   nextId |-> nid]

ListRoute(st, nid) == Reply(200, st, "", st, nid)

CreateRoute(body, st, nid) ==
  IF Missing(body, "title") \/ Missing(body, "author")
    THEN Reply(400, <<>>, "Title and author are required", st, nid)
    ELSE LET book == NewBook(body, nid)
         IN  Reply(201, <<book>>, "", Append(st, book), nid + 1)

\* The store's delete-by-id.
StoreDelete(st, id) ==
  LET Other(b) == b._id # id IN SelectSeq(st, Other)

DeleteRoute(id, st, nid) ==
  IF id \in Ids(st)
    THEN Reply(200, <<>>, "", StoreDelete(st, id), nid)
    ELSE Reply(404, <<>>, "Book not found", st, nid)

\* A failure of the store: nothing is applied, and the route handler maps it to
\* a 5xx response.
StoreFailure(st, nid) == Reply(500, <<>>, "Server error", st, nid)

Route(c, st, nid) ==
  CASE c.method = "GET" -> ListRoute(st, nid)
    [] c.method = "POST" -> CreateRoute(c.body, st, nid)
    [] c.method = "DELETE" -> DeleteRoute(c.id, st, nid)

\* A create is validated before the store is used; every other request uses
\* the store, which may fail.
Responses(c, st, nid) ==
  IF c.method = "POST" /\ (Missing(c.body, "title") \/ Missing(c.body, "author"))
    THEN {Route(c, st, nid)}
    ELSE {Route(c, st, nid), StoreFailure(st, nid)}

ServerHandle(i) ==
  /\ i \in 1..Len(inflight)
  /\ inflight[i].phase = "sent"
  /\ \E r \in Responses(inflight[i], store, nextId) :
       /\ r.nextId <= MaxId + 1
       /\ store' = r.store
       /\ nextId' = r.nextId
       /\ inflight' = [inflight EXCEPT ![i] =
                         [@ EXCEPT !.phase = "replied", !.status = r.status,
                                   !.data = r.data, !.message = r.message]]
  /\ UNCHANGED <<books, newBook, loading, error, mounted>>

\* Any HTTP client of the API: it lists, posts any body, or deletes any id.
OtherBodies ==
  {[author |-> <<"D">>],
   [title |-> <<" ">>, author |-> <<"D">>],
   [title |-> <<"D">>, author |-> <<>>, description |-> <<"D">>],
   [title |-> <<"D">>, author |-> <<"D">>, description |-> <<>>]}

OtherRequest ==
  /\ Len(inflight) < MaxInflight
  /\ \/ inflight' = Append(inflight, Request("Other", "GET", <<>>, NoBody, 0))
     \/ \E body \in OtherBodies :
          inflight' = Append(inflight, Request("Other", "POST", <<>>, body, 0))
     \/ \E id \in 1..MaxId :
          inflight' = Append(inflight, Request("Other", "DELETE", <<>>, NoBody, id))
  /\ UNCHANGED <<books, newBook, loading, error, mounted, store, nextId>>

OtherSettled(i) ==
  /\ i \in 1..Len(inflight)
  /\ inflight[i].origin = "Other"
  /\ inflight' = RemoveAt(inflight, i)
  /\ UNCHANGED <<books, newBook, loading, error, mounted, store, nextId>>

----------------------------------------------------------------------------
\* The component and the server, in every interleaving: the handlers are
\* invoked whatever loading is.
Next ==
  \/ Mount
  \/ \E name \in FieldNames : \E value \in Typed(name) :
       mounted /\ handleInputChange(name, value)
  \/ mounted /\ handleAddBook
  \/ \E id \in 1..MaxId : mounted /\ handleDeleteBook(id)
  \/ \E i \in 1..MaxInflight : \E r \in Outcomes(i) : fetchBooksSettled(i, r)
  \/ \E i \in 1..MaxInflight : \E r \in Outcomes(i) : handleAddBookSettled(i, r)
  \/ \E i \in 1..MaxInflight : \E r \in Outcomes(i) : handleDeleteBookSettled(i, r)
  \/ \E i \in 1..MaxInflight : ServerHandle(i)

Spec == Init /\ [][Next]_vars

\* The component used through its rendered controls only.
NextUI ==
  \/ Mount
  \/ \E name \in FieldNames : \E value \in Typed(name) :
       mounted /\ TypeInput(name, value)
  \/ mounted /\ SubmitForm
  \/ \E id \in 1..MaxId : mounted /\ ClickDelete(id)
  \/ \E i \in 1..MaxInflight : \E r \in Outcomes(i) : fetchBooksSettled(i, r)
  \/ \E i \in 1..MaxInflight : \E r \in Outcomes(i) : handleAddBookSettled(i, r)
  \/ \E i \in 1..MaxInflight : \E r \in Outcomes(i) : handleDeleteBookSettled(i, r)
  \/ \E i \in 1..MaxInflight : ServerHandle(i)

SpecUI == Init /\ [][NextUI]_vars

\* The server under the requests of any HTTP clients.
NextApi ==
  \/ OtherRequest
  \/ \E i \in 1..MaxInflight : ServerHandle(i)
  \/ \E i \in 1..MaxInflight : OtherSettled(i)

SpecApi == Init /\ [][NextApi]_vars

----------------------------------------------------------------------------
\* Vocabulary of the properties, stated without the operators of the model.

\* Empty, or nothing but whitespace.
Blank(s) == \A k \in 1..Len(s) : s[k] = " "

BlankDraft(draft) == Blank(draft.title) \/ Blank(draft.author)

InvalidBody(body) ==
  \/ "title" \notin DOMAIN body
  \/ "author" \notin DOMAIN body
  \/ Blank(body.title)
  \/ Blank(body.author)

RECURSIVE WithoutId(_, _)
WithoutId(bs, id) ==
  IF bs = <<>> THEN <<>>
  ELSE IF Head(bs)._id = id THEN WithoutId(Tail(bs), id)
  ELSE <<Head(bs)>> \o WithoutId(Tail(bs), id)

Fallback(method) ==
  CASE method = "GET" -> "Failed to load books"
    [] method = "POST" -> "Failed to add book"
    [] method = "DELETE" -> "Failed to delete book"

Succeeded(c) == c.phase = "replied" /\ c.status \in 200..299

\* A step that is the continuation of the request at i on outcome r.
Settles(i, r) ==
  \/ fetchBooksSettled(i, r)
  \/ handleAddBookSettled(i, r)
  \/ handleDeleteBookSettled(i, r)

----------------------------------------------------------------------------
\* C1: submitting a draft whose title or author is empty or whitespace-only
\* issues no create request, sets a non-empty errorMessage and leaves books,
\* the draft and pending as they were; and no step taken while the draft is
\* such adds a create request.
C1_RejectedSubmit ==
  [][BlankDraft(newBook) =>
       /\ ~(/\ Len(inflight') > Len(inflight)
            /\ inflight'[Len(inflight')].method = "POST")
       /\ (mounted /\ handleAddBook) =>
            /\ error' # ""
            /\ inflight' = inflight
            /\ UNCHANGED <<books, newBook, loading, store>>]_vars

\* The submit of a draft with a valid title and a whitespace-only author was
\* rejected.
C1_Witness ==
  /\ error = RequiredMessage
  /\ newBook.title = <<"D">>
  /\ newBook.author = <<" ">>
  /\ inflight = <<>>
  /\ ~loading

C4_FailedDeleteKeepsBooks ==
  [][/\ \A id \in Ids(books) : (mounted /\ handleDeleteBook(id)) => books' = books
     /\ \A i \in 1..Len(inflight) :
          (inflight[i].method = "DELETE" /\ ServerHandle(i)) => books' = books
     /\ \A i \in 1..Len(inflight) : \A r \in Awaited(inflight[i]) :
          (~r.ok /\ handleDeleteBookSettled(i, r)) =>
            /\ books' = books
            /\ error' # ""]_vars

\* A delete of an id the store no longer holds has failed, and the records
\* are still listed.
C4_Witness ==
  /\ error = "Book not found"
  /\ books # <<>>
  /\ inflight = <<>>

\* C5: every failure of a load, create or delete request sets errorMessage to
\* one non-empty text (the response's message when present and non-empty,
\* otherwise the operation's fallback), sets pending to false and issues no
\* request: the requests in flight are the former ones less the failed one.
C5_FailureSetsError ==
  [][\A i \in 1..Len(inflight) : \A r \in Awaited(inflight[i]) :
       (~r.ok /\ Settles(i, r)) =>
         /\ error' = IF r.message # "" THEN r.message
                                       ELSE Fallback(inflight[i].method)
         /\ error' # ""
         /\ loading' = FALSE
         /\ Len(inflight') = Len(inflight) - 1
         /\ \A k \in 1..Len(inflight') :
              inflight'[k] = inflight[IF k < i THEN k ELSE k + 1]]_vars

\* A create carrying a valid draft has failed without a response.
C5_Witness ==
  /\ error = "Failed to add book"
  /\ ~loading
  /\ inflight = <<>>
  /\ ~BlankDraft(newBook)

\* C6: pending is true in every state in which a request is in flight, and
\* false in every state in which none is.
C6_PendingWhileInFlight ==
  /\ inflight # <<>> => loading
  /\ inflight = <<>> => ~loading

\* C7: a load, create or delete request that completes successfully leaves
\* errorMessage empty, whatever it held.
C7_SuccessClearsError ==
  [][\A i \in 1..Len(inflight) : \A r \in Awaited(inflight[i]) :
       (r.ok /\ Settles(i, r)) => error' = ""]_vars

\* A failure text is shown while a request has been answered with success.
C7_Witness ==
  /\ error # ""
  /\ \E i \in 1..Len(inflight) : Succeeded(inflight[i])

\* C8: the server answers every create request whose title or author is
\* missing, empty or whitespace-only with a 4xx response carrying a message,
\* and the store is unchanged by it; every record of the store has a title
\* and an author that are not blank.
C8_ServerRejectsBlank ==
  /\ [](\A k \in 1..Len(store) : ~Blank(store[k].title) /\ ~Blank(store[k].author))
  /\ [][\A i \in 1..Len(inflight) :
          (/\ inflight[i].method = "POST"
           /\ InvalidBody(inflight[i].body)
           /\ ServerHandle(i)) =>
            /\ inflight'[i].status \in 400..499
            /\ inflight'[i].message # ""
            /\ store' = store
            /\ nextId' = nextId]_vars

\* A create with a whitespace-only title has been answered.
C8_Witness ==
  \E i \in 1..Len(inflight) :
    /\ inflight[i].method = "POST"
    /\ inflight[i].phase = "replied"
    /\ "title" \in DOMAIN inflight[i].body
    /\ inflight[i].body.title = <<" ">>

\* The books the component shows once the response of request c is
\* delivered to its handler.
OnDelivery(c) ==
  IF Succeeded(c)
    THEN CASE c.method = "GET" -> c.data
           [] c.method = "POST" -> Append(c.books, c.data[1])
           [] c.method = "DELETE" -> WithoutId(c.books, c.id)
    ELSE books

\* books is in step with the store: equal to its list when no request is in
\* flight or the server has not handled it yet, and about to be equal to it
\* when the server's response is on its way.
InStep ==
  IF inflight = <<>> \/ inflight[1].phase = "sent"
    THEN books = store
    ELSE OnDelivery(inflight[1]) = store

\* The response of a request the server answered with success never reaches
\* the handler: a transport error settles it.
ResponseLost ==
  \E i \in 1..Len(inflight) : \E r \in Awaited(inflight[i]) :
    Succeeded(inflight[i]) /\ ~r.ok /\ Settles(i, r)

C10_NeverUndone ==
  [][/\ \A k \in 1..Len(books) :
          books[k]._id \in Ids(store) => books[k]._id \in Ids(books')
     /\ \A id \in 1..(nextId - 1) :
          (id \notin Ids(store) /\ id \notin Ids(books)) => id \notin Ids(books')]_vars

====
